---------------------------- MODULE Spec2Model ----------------------------
(***************************************************************************)
(* Model of create_icons.py: the icon generator.                           *)
(*                                                                         *)
(* The script creates the directory dist/icons and then, for each size of  *)
(* a hardcoded list, builds a green square canvas, fills a white upward    *)
(* triangle on it, saves it as dist/icons/icon{size}.png and prints a      *)
(* confirmation line.  Every library call that can raise is uncaught, so a *)
(* failure ends the process at that call.                                  *)
(*                                                                         *)
(* The state is the process (its position, loop index and locals), the     *)
(* console, the path dist/icons on the filesystem, and the record of the   *)
(* library calls the process has made.  The script may be invoked again    *)
(* after a process has ended; the filesystem is what survives.             *)
(***************************************************************************)
EXTENDS Integers, Sequences, FiniteSets, TLC

VARIABLES
    sizes,     \* the list the for loop iterates over
    pc,        \* the statement the process is about to execute
    i,         \* position of the loop in sizes (1-based)
    img,       \* the canvas of the current iteration
    points,    \* the triangle vertices of the current iteration
    fs,        \* the path dist/icons: its kind and, for a directory, its files
    out,       \* the lines printed by the current process
    trace,     \* the library calls made by the current process, in order
    exits,     \* exit status of every finished invocation, oldest first
    fs0        \* the filesystem as the current process found it

vars == <<sizes, pc, i, img, points, fs, out, trace, exits, fs0>>

---------------------------------------------------------------------------
(* Bounds of the model *)

\* number of invocations of the script in one behaviour
MaxRuns == 2

\* largest size of the one-element lists of SpecSizes
MaxSize == 24

---------------------------------------------------------------------------
(* Values *)

\* for size in [16, 48, 128]
Sizes == <<16, 48, 128>>

\* color='#4CAF50'
Background == "#4CAF50"

\* fill='white'
White == "white"

\* f'dist/icons/icon{size}.png', relative to dist/icons
IconName(size) == "icon" \o ToString(size) \o ".png"

\* f'Created icon{size}.png': a slip that leaves the placeholder unformatted
ConfirmLineUnformatted(size) == "Created icon{size}.png"

\* f'Created icon{size}.png'
ConfirmLine(size) == "Created icon" \o ToString(size) \o ".png"

\* the pixels of a size x size image
Pixels(size) == (0 .. size - 1) \X (0 .. size - 1)

\* Image.new('RGB', (size, size), color='#4CAF50'): every pixel is the
\* background colour; white is the set of pixels painted white since
NewImage(size) == [size |-> size, base |-> Background, white |-> {}]

\* the value of img before the first iteration assigns it
NoImage == [size |-> 0, base |-> "", white |-> {}]

\* img.getpixel(p)
GetPixel(image, p) == IF p \in image.white THEN White ELSE image.base

---------------------------------------------------------------------------
(* The triangle *)

\* arrow_size computed without the division
arrow_size_undivided(size) == size

\* arrow_size rounded up instead of down
arrow_size_ceil(size) == (size + 2) \div 3

\* arrow_size = size // 3
arrow_size(size) == size \div 3

\* the centre rounded up instead of down
center_rounded_up(size) == (size + 1) \div 2

\* center_x = size // 2
center_x(size) == size \div 2

\* center_y = size // 2
center_y(size) == size \div 2

\* points = [ apex, base-left, base-right ]
Points(size) ==
    << <<center_x(size), center_y(size) - arrow_size(size) \div 2>>,
       <<center_x(size) - arrow_size(size) \div 2,
         center_y(size) + arrow_size(size) \div 2>>,
       <<center_x(size) + arrow_size(size) \div 2,
         center_y(size) + arrow_size(size) \div 2>> >>

Min2(a, b) == IF a < b THEN a ELSE b
Max2(a, b) == IF a > b THEN a ELSE b
Min3(a, b, c) == Min2(a, Min2(b, c))
Max3(a, b, c) == Max2(a, Max2(b, c))

\* the bounding box of three vertices
InBox(pts, p) ==
    /\ Min3(pts[1][1], pts[2][1], pts[3][1]) <= p[1]
    /\ p[1] <= Max3(pts[1][1], pts[2][1], pts[3][1])
    /\ Min3(pts[1][2], pts[2][2], pts[3][2]) <= p[2]
    /\ p[2] <= Max3(pts[1][2], pts[2][2], pts[3][2])

\* twice the signed area of the triangle a, b, p
Cross(a, b, p) == (b[1] - a[1]) * (p[2] - a[2]) - (b[2] - a[2]) * (p[1] - a[1])

\* p lies on the segment from a to b
OnSegment(a, b, p) ==
    /\ Cross(a, b, p) = 0
    /\ Min2(a[1], b[1]) <= p[1] /\ p[1] <= Max2(a[1], b[1])
    /\ Min2(a[2], b[2]) <= p[2] /\ p[2] <= Max2(a[2], b[2])

\* p lies inside or on the boundary of the triangle pts
InTriangle(pts, p) ==
    LET d1 == Cross(pts[1], pts[2], p)
        d2 == Cross(pts[2], pts[3], p)
        d3 == Cross(pts[3], pts[1], p)
    IN  /\ InBox(pts, p)
        /\ ~ ( (d1 < 0 \/ d2 < 0 \/ d3 < 0) /\ (d1 > 0 \/ d2 > 0 \/ d3 > 0) )

\* draw.polygon(points, outline='white'): the edges only
OutlinePolygon(image, pts) ==
    [image EXCEPT !.white = @ \cup
        {p \in Pixels(image.size) :
            \/ OnSegment(pts[1], pts[2], p)
            \/ OnSegment(pts[2], pts[3], p)
            \/ OnSegment(pts[3], pts[1], p)}]

\* draw.polygon(points, fill='white'): the pixels of the canvas inside or on
\* the boundary of the triangle become white
FillPolygon(image, pts) ==
    [image EXCEPT !.white = @ \cup {p \in Pixels(image.size) : InTriangle(pts, p)}]

---------------------------------------------------------------------------
(* Files *)

\* an encoder that stamps the file with the number of the invocation
EncodeStamped(image) ==
    [format |-> "PNG", mode |-> "RGB", width |-> image.size,
     height |-> image.size, data |-> image, stamp |-> Len(exits)]

\* the PNG encoding of an RGB image: lossless, and a function of the image
\* alone
Encode(image) ==
    [format |-> "PNG", mode |-> "RGB", width |-> image.size,
     height |-> image.size, data |-> image]

\* what a save that failed after opening the file leaves behind
Truncated ==
    [format |-> "truncated", mode |-> "", width |-> 0, height |-> 0,
     data |-> NoImage]

\* an icon left in dist/icons by something other than this script
Stale ==
    [format |-> "PNG", mode |-> "RGB", width |-> 1, height |-> 1,
     data |-> [size |-> 1, base |-> "black", white |-> {}]]

NoFiles == [n \in {} |-> Stale]

\* open(name, 'w+b') followed by a complete write: the file is created or
\* replaced and every other file is left alone
WriteFile(files, name, content) ==
    [n \in DOMAIN files \cup {name} |-> IF n = name THEN content ELSE files[n]]

\* what may already be in dist/icons when the script is first run
StaleNames == {"icon16.png", "logo.svg"}

InitialFs ==
    {[kind |-> "absent", files |-> NoFiles], [kind |-> "file", files |-> NoFiles]}
    \cup {[kind |-> "dir", files |-> [n \in S |-> Stale]] : S \in SUBSET StaleNames}

\* one library call in the record of the process
Event(op, size, ok) == [op |-> op, size |-> size, ok |-> ok]

---------------------------------------------------------------------------
(* Library calls that can raise *)

\* os.makedirs('dist/icons'): without exist_ok an existing directory raises too
MakedirsOutcomesNoExistOk(f) ==
    IF f.kind = "absent"
    THEN {[ok |-> TRUE, fs |-> [kind |-> "dir", files |-> NoFiles]],
          [ok |-> FALSE, fs |-> f]}
    ELSE {[ok |-> FALSE, fs |-> f]}

\* os.makedirs('dist/icons', exist_ok=True): an existing directory is left as
\* it is; a missing one is created unless the filesystem refuses; anything
\* else at the path raises FileExistsError
MakedirsOutcomes(f) ==
    IF f.kind = "dir"
    THEN {[ok |-> TRUE, fs |-> f]}
    ELSE IF f.kind = "absent"
         THEN {[ok |-> TRUE, fs |-> [kind |-> "dir", files |-> NoFiles]],
               [ok |-> FALSE, fs |-> f]}
         ELSE {[ok |-> FALSE, fs |-> f]}

\* img.save(name): the file is written whole, or the call raises before the
\* file is opened (nothing changes) or after (the file is left truncated)
SaveOutcomes(files, name, content) ==
    {[ok |-> TRUE, files |-> WriteFile(files, name, content)],
     [ok |-> FALSE, files |-> files],
     [ok |-> FALSE, files |-> WriteFile(files, name, Truncated)]}

\* where the for statement goes when its position is k
LoopAt(k) == IF k <= Len(sizes) THEN "new" ELSE "done"

---------------------------------------------------------------------------
(* The process *)

\* line 5
Makedirs ==
    /\ pc = "makedirs"
    /\ \E r \in MakedirsOutcomes(fs) :
        /\ fs' = r.fs
        /\ trace' = Append(trace, Event("makedirs", 0, r.ok))
        /\ pc' = IF r.ok THEN LoopAt(1) ELSE "failed"
    /\ i' = 1
    /\ UNCHANGED <<sizes, img, points, out, exits, fs0>>

\* lines 9-10
New ==
    /\ pc = "new"
    /\ img' = NewImage(sizes[i])
    /\ trace' = Append(trace, Event("new", sizes[i], TRUE))
    /\ pc' = "points"
    /\ UNCHANGED <<sizes, i, points, fs, out, exits, fs0>>

\* lines 13-21
ComputePoints ==
    /\ pc = "points"
    /\ points' = Points(sizes[i])
    /\ pc' = "polygon"
    /\ UNCHANGED <<sizes, i, img, fs, out, trace, exits, fs0>>

\* line 23
Polygon ==
    /\ pc = "polygon"
    /\ img' = FillPolygon(img, points)
    /\ trace' = Append(trace, Event("polygon", sizes[i], TRUE))
    /\ pc' = "save"
    /\ UNCHANGED <<sizes, i, points, fs, out, exits, fs0>>

\* line 24 with the exception swallowed: the loop goes on to print
SaveSwallowed ==
    /\ pc = "save"
    /\ \E r \in SaveOutcomes(fs.files, IconName(sizes[i]), Encode(img)) :
        /\ fs' = [fs EXCEPT !.files = r.files]
        /\ trace' = Append(trace, Event("save", sizes[i], r.ok))
    /\ pc' = "print"
    /\ UNCHANGED <<sizes, i, img, points, out, exits, fs0>>

\* line 24 with a cleanup that removes the icons written so far on failure
SaveRollback ==
    /\ pc = "save"
    /\ \E r \in SaveOutcomes(fs.files, IconName(sizes[i]), Encode(img)) :
        /\ fs' = [fs EXCEPT !.files = IF r.ok THEN r.files ELSE NoFiles]
        /\ trace' = Append(trace, Event("save", sizes[i], r.ok))
        /\ pc' = IF r.ok THEN "print" ELSE "failed"
    /\ UNCHANGED <<sizes, i, img, points, out, exits, fs0>>

\* line 24
Save ==
    /\ pc = "save"
    /\ \E r \in SaveOutcomes(fs.files, IconName(sizes[i]), Encode(img)) :
        /\ fs' = [fs EXCEPT !.files = r.files]
        /\ trace' = Append(trace, Event("save", sizes[i], r.ok))
        /\ pc' = IF r.ok THEN "print" ELSE "failed"
    /\ UNCHANGED <<sizes, i, img, points, out, exits, fs0>>

\* line 25 with the makedirs call moved into the loop body: it runs again
\* before each further size
PrintCreatedThenMakedirs ==
    /\ pc = "print"
    /\ out' = Append(out, ConfirmLine(sizes[i]))
    /\ i' = i + 1
    /\ \/ /\ i < Len(sizes)
          /\ \E r \in MakedirsOutcomes(fs) :
              /\ fs' = r.fs
              /\ trace' = Append(Append(trace, Event("print", sizes[i], TRUE)),
                                 Event("makedirs", 0, r.ok))
              /\ pc' = IF r.ok THEN "new" ELSE "failed"
       \/ /\ i >= Len(sizes)
          /\ fs' = fs
          /\ trace' = Append(trace, Event("print", sizes[i], TRUE))
          /\ pc' = "done"
    /\ UNCHANGED <<sizes, img, points, exits, fs0>>

\* line 25 and the step of the for statement (line 8)
PrintCreated ==
    /\ pc = "print"
    /\ out' = Append(out, ConfirmLine(sizes[i]))
    /\ trace' = Append(trace, Event("print", sizes[i], TRUE))
    /\ i' = i + 1
    /\ pc' = LoopAt(i + 1)
    /\ UNCHANGED <<sizes, img, points, fs, exits, fs0>>

\* the script is invoked again after the previous process has ended
RunAgain ==
    /\ pc \in {"done", "failed"}
    /\ Len(exits) + 1 < MaxRuns
    /\ exits' = Append(exits, IF pc = "done" THEN 0 ELSE 1)
    /\ fs0' = fs
    /\ pc' = "makedirs"
    /\ i' = 1
    /\ img' = NoImage
    /\ points' = <<>>
    /\ out' = <<>>
    /\ trace' = <<>>
    /\ UNCHANGED <<sizes, fs>>

\* the state of a fresh process
Start ==
    /\ pc = "makedirs"
    /\ i = 1
    /\ img = NoImage
    /\ points = <<>>
    /\ out = <<>>
    /\ trace = <<>>
    /\ exits = <<>>
    /\ fs \in InitialFs
    /\ fs0 = fs

Init == sizes = Sizes /\ Start

\* the script with its list replaced by any one positive size, or unchanged
InitSizes == sizes \in ({<<s>> : s \in 1 .. MaxSize} \cup {Sizes}) /\ Start

\* one statement of the running process
Step == Makedirs \/ New \/ ComputePoints \/ Polygon \/ Save \/ PrintCreated

Next == Step \/ RunAgain

Spec == Init /\ [][Next]_vars

\* a process that can execute a statement eventually does
FairSpec == Init /\ [][Next]_vars /\ WF_vars(Step)

SpecSizes == InitSizes /\ [][Next]_vars

---------------------------------------------------------------------------
(* Properties *)

\* the positions of the record of calls
Calls == 1 .. Len(trace)

\* the sizes whose file the current process has saved
SavedSizes == {trace[j].size : j \in {k \in Calls : trace[k].op = "save" /\ trace[k].ok}}

\* the current process has ended
Ended == pc \in {"done", "failed"}

\* the triangle of the current iteration has been computed
PointsComputed == pc \in {"polygon", "save", "print"}

\* the triangle of the current iteration has been drawn on img
Drawn == pc \in {"save", "print"}

\* the image held by a file
Decode(content) == content.data

\* the four corners of a size x size image
Corners(size) == {<<0, 0>>, <<size - 1, 0>>, <<0, size - 1>>, <<size - 1, size - 1>>}

\* the files of dist/icons named after a size of the list
IconFiles(f) == {n \in DOMAIN f.files : \E k \in 1 .. Len(sizes) : n = IconName(sizes[k])}

\* C1: a process that ends without a failed call has saved exactly
\* icon16.png, icon48.png and icon128.png, each once, and has printed exactly
\* the three Created lines in that order; a process ends in failure only
\* after a failed call; and every process ends.
C1_SuccessfulRun ==
    /\ [](pc = "done" =>
            /\ \A k \in Calls : trace[k].op = "save" => trace[k].ok
            /\ Cardinality({k \in Calls : trace[k].op = "save"}) = 3
            /\ SavedSizes = {16, 48, 128}
            /\ fs.kind = "dir"
            /\ {"icon16.png", "icon48.png", "icon128.png"} \subseteq DOMAIN fs.files
            /\ \A n \in DOMAIN fs.files \ {"icon16.png", "icon48.png", "icon128.png"} :
                 n \in DOMAIN fs0.files /\ fs.files[n] = fs0.files[n]
            /\ out = <<"Created icon16.png", "Created icon48.png", "Created icon128.png">>)
    /\ [](pc = "failed" => \E j \in Calls : ~trace[j].ok)
    /\ (~Ended ~> Ended)

C1_Witness == pc = "done" /\ exits = <<>> /\ fs0.kind = "absent"

\* C2: for every size, the vertices the script computes are
\* (size/2, size/2 - size/6), (size/2 - size/6, size/2 + size/6) and
\* (size/2 + size/6, size/2 + size/6), all divisions rounding down.
C2_VerticesMatchFormula ==
    PointsComputed =>
        LET size == sizes[i]
            c == size \div 2
            h == size \div 6
        IN  points = << <<c, c - h>>, <<c - h, c + h>>, <<c + h, c + h>> >>

C2_Witness == pc = "polygon" /\ sizes = <<11>> /\ points = << <<5, 4>>, <<4, 6>>, <<6, 6>> >>

\* C3: for each of the sizes 16, 48 and 128, the pixel at (size/2, size/2) is
\* white on the canvas once the polygon is drawn and in the saved file.
C3_CentreIsWhite ==
    /\ Drawn => GetPixel(img, <<sizes[i] \div 2, sizes[i] \div 2>>) = "white"
    /\ \A size \in SavedSizes :
         LET image == Decode(fs.files[IconName(size)])
         IN  /\ image.size = size
             /\ GetPixel(image, <<size \div 2, size \div 2>>) = "white"

C3_Witness == pc = "done" /\ SavedSizes = {16, 48, 128} /\ <<64, 64>> \in Decode(fs.files["icon128.png"]).white

\* C4: for each of the sizes 16, 48 and 128, the four corner pixels have the
\* colour #4CAF50 on the canvas and in the saved file, and no corner lies in
\* the bounding box of the triangle.
C4_CornersAreBackground ==
    /\ pc \in {"points", "polygon", "save", "print"} =>
         \A p \in Corners(sizes[i]) : GetPixel(img, p) = "#4CAF50"
    /\ PointsComputed => \A p \in Corners(sizes[i]) : ~InBox(points, p)
    /\ \A size \in SavedSizes :
         \A p \in Corners(size) :
            GetPixel(Decode(fs.files[IconName(size)]), p) = "#4CAF50"

C4_Witness == pc = "print" /\ sizes[i] = 128 /\ SavedSizes = {16, 48, 128} /\ img.white # {}

\* C5: when a process succeeds right after a process that succeeded, it
\* leaves the filesystem exactly as it found it, and after any successful
\* process exactly 3 files of dist/icons are named icon{size}.png for a size
\* of the list.
C5_SecondRunIdempotent ==
    /\ (pc = "done" /\ exits # <<>> /\ exits[Len(exits)] = 0) => fs = fs0
    /\ (pc = "done" /\ sizes = Sizes) => Cardinality(IconFiles(fs)) = 3

C5_Witness == pc = "done" /\ exits # <<>> /\ exits[Len(exits)] = 0 /\ trace # <<>>

\* C6: when makedirs fails, the process ends right there in failure, having
\* written and printed nothing; a path that is a regular file always makes it
\* fail; a path that is already a directory never does.
C6_MakedirsFailureStops ==
    /\ (trace # <<>> /\ ~trace[1].ok) =>
         /\ trace = <<Event("makedirs", 0, FALSE)>>
         /\ pc = "failed"
         /\ out = <<>>
         /\ fs = fs0
         /\ fs0.kind # "dir"
    /\ fs0.kind = "file" => (pc \in {"makedirs", "failed"} /\ out = <<>> /\ fs = fs0)
    /\ (fs0.kind = "dir" /\ trace # <<>>) => trace[1] = Event("makedirs", 0, TRUE)

C6_Witness == pc = "failed" /\ fs.kind = "file" /\ trace = <<Event("makedirs", 0, FALSE)>>

\* the file of a size is as the current process found it
Untouched(size) ==
    /\ IconName(size) \in DOMAIN fs.files <=> IconName(size) \in DOMAIN fs0.files
    /\ IconName(size) \in DOMAIN fs.files => fs.files[IconName(size)] = fs0.files[IconName(size)]

\* C7: when the save of the k-th size fails, the process ends in failure with
\* that call as its last; the files of the earlier sizes are on disk as they
\* were written; and no call was made for a later size, whose file is as the
\* process found it.
C7_SaveFailureStops ==
    \A k \in 1 .. Len(sizes) : \A j \in Calls :
        trace[j] = Event("save", sizes[k], FALSE) =>
            /\ pc = "failed"
            /\ j = Len(trace)
            /\ i = k
            /\ \A m \in 1 .. k - 1 :
                 /\ IconName(sizes[m]) \in DOMAIN fs.files
                 /\ fs.files[IconName(sizes[m])]
                      = Encode(FillPolygon(NewImage(sizes[m]), Points(sizes[m])))
            /\ \A m \in k + 1 .. Len(sizes) :
                 /\ \A n \in Calls : trace[n].size # sizes[m]
                 /\ Untouched(sizes[m])

C7_Witness ==
    /\ pc = "failed"
    /\ trace[Len(trace)] = Event("save", 48, FALSE)
    /\ "icon16.png" \in DOMAIN fs.files
    /\ fs.files["icon16.png"].width = 16

\* C8 as stated: every save is immediately preceded by a makedirs call of its
\* own, which follows the polygon call of that size.
C8_MakedirsBeforeEachSave ==
    \A j \in Calls :
        trace[j].op = "save" =>
            /\ j >= 3
            /\ trace[j - 1].op = "makedirs"
            /\ trace[j - 2] = Event("polygon", trace[j].size, TRUE)

\* C8 amended: makedirs is called exactly once per process, as its first
\* call and before the loop; every save comes after that one call, which
\* succeeded, and is immediately preceded by the polygon call of its size.
C8_MakedirsOnceBeforeLoop ==
    /\ \A j \in Calls : trace[j].op = "makedirs" <=> j = 1
    /\ \A j \in Calls :
         trace[j].op = "save" =>
            /\ j >= 2
            /\ trace[1] = Event("makedirs", 0, TRUE)
            /\ trace[j - 1] = Event("polygon", trace[j].size, TRUE)

C8_Witness == pc = "done" /\ Len(trace) = 13 /\ trace[12].op = "save"

\* C9: in every state the printed lines are the Created lines of the first
\* sizes of the list, in order, and each names a file this process saved
\* before printing the line and that is on disk as a PNG.
C9_PrintedOnlyAfterSave ==
    /\ Len(out) <= 3
    /\ out = SubSeq(<<"Created icon16.png", "Created icon48.png", "Created icon128.png">>,
                    1, Len(out))
    /\ \A k \in 1 .. Len(out) :
         /\ \E j \in Calls : \E n \in Calls :
              /\ j < n
              /\ trace[j] = Event("save", Sizes[k], TRUE)
              /\ trace[n] = Event("print", Sizes[k], TRUE)
         /\ IconName(Sizes[k]) \in DOMAIN fs.files
         /\ fs.files[IconName(Sizes[k])].format = "PNG"
         /\ fs.files[IconName(Sizes[k])].width = Sizes[k]
    /\ \A n \in Calls : trace[n].op = "print" => \E k \in 1 .. Len(out) : trace[n].size = Sizes[k]

C9_Witness == pc = "failed" /\ Len(out) = 2 /\ ~trace[Len(trace)].ok

\* C10: for every size, each coordinate of each vertex the script computes
\* lies in 0 .. size - 1.
C10_VerticesInsideCanvas ==
    PointsComputed =>
        \A v \in 1 .. 3 : \A c \in 1 .. 2 :
            0 <= points[v][c] /\ points[v][c] <= sizes[i] - 1

C10_Witness == pc = "polygon" /\ sizes = <<1>> /\ points[3] = <<0, 0>>

===========================================================================
